---- MODULE Spec2Model ----
(***************************************************************************)
(* Model of DocReportGenerator (src/doc.py): one generator instance whose  *)
(* run() pipeline is fetch_data -> _normalize -> format_doc -> save.       *)
(*                                                                         *)
(* Text is a sequence of one-character strings, so that str(), strip()     *)
(* and the f-string fallbacks are computed, not assumed.  A decoded JSON   *)
(* value is a record with a "kind" field:                                  *)
(*   null / number / string    [kind, num, str]                            *)
(*   object (Python dict)      [kind |-> "dict", f |-> key -> value]       *)
(*   array  (Python list)      [kind |-> "list", elems |-> sequence]       *)
(* JSON null and Python None are the same value, as in the program.        *)
(***************************************************************************)
EXTENDS Integers, Sequences, FiniteSets, TLC

\* ------------------------------------------------------------ bounds ----
MaxLen == 2          \* longest JSON array fetched
MaxRuns == 2         \* run() calls on one instance (SpecRuns)
MaxCalls == 1        \* direct format_doc calls on one instance (SpecRuns)
MaxStep == 2         \* largest clock advance between two readings of now()
TicksPerSec == 2     \* clock ticks per second (strftime drops the rest)

\* ------------------------------------------------------------- values ---
Null == [kind |-> "null", num |-> 0, str |-> <<>>]
Num(n) == [kind |-> "num", num |-> n, str |-> <<>>]
Text(s) == [kind |-> "str", num |-> 0, str |-> s]
Dict(fn) == [kind |-> "dict", f |-> fn]
List(s) == [kind |-> "list", elems |-> s]
EmptyDict == Dict([k \in {} |-> Null])

IsDict(v) == v.kind = "dict"
IsList(v) == v.kind = "list"
IsStr(v) == v.kind = "str"

\* Python truthiness, as used by `x or y`.
Truthy(v) ==
  CASE v.kind = "null" -> FALSE
    [] v.kind = "num" -> v.num # 0
    [] v.kind = "str" -> Len(v.str) > 0
    [] v.kind = "dict" -> DOMAIN v.f # {}
    [] v.kind = "list" -> Len(v.elems) > 0

Digit(d) ==
  CASE d = 0 -> "0" [] d = 1 -> "1" [] d = 2 -> "2" [] d = 3 -> "3"
    [] d = 4 -> "4" [] d = 5 -> "5" [] d = 6 -> "6" [] d = 7 -> "7"
    [] d = 8 -> "8" [] d = 9 -> "9"

RECURSIVE DecStr(_)
\* str(n) for a natural number n.
DecStr(n) == IF n < 10 THEN <<Digit(n)>> ELSE DecStr(n \div 10) \o <<Digit(n % 10)>>

\* str(v) / f"{v}" for the values that reach a format in the model.
Str(v) ==
  CASE v.kind = "null" -> <<"N", "o", "n", "e">>
    [] v.kind = "num" -> DecStr(v.num)
    [] v.kind = "str" -> v.str
    [] v.kind = "dict" -> <<"{", "}">>
    [] v.kind = "list" -> <<"[", "]">>

Whitespace == {" ", "\t", "\n"}

RECURSIVE LStrip(_)
LStrip(s) == IF s # <<>> /\ Head(s) \in Whitespace THEN LStrip(Tail(s)) ELSE s

RECURSIVE RStrip(_)
RStrip(s) ==
  IF s # <<>> /\ s[Len(s)] \in Whitespace THEN RStrip(SubSeq(s, 1, Len(s) - 1)) ELSE s

\* str.strip()
Strip(s) == RStrip(LStrip(s))

\* ----------------------------------------------------------- literals ---
api_url == <<"h", "t", "t", "p", ":", "/", "/", "a", "p", "i">>
output_path == <<"r", "e", "p", "o", "r", "t", ".", "d", "o", "c", "x">>
ItemPrefix == <<"i", "t", "e", "m", "-">>
Untitled == <<"(", "u", "n", "t", "i", "t", "l", "e", "d", ")">>
Published == <<"p", "u", "b", "l", "i", "s", "h", "e", "d">>
NoSummary ==
  <<"(", "n", "o", " ", "s", "u", "m", "m", "a", "r", "y", " ",
    "a", "v", "a", "i", "l", "a", "b", "l", "e", ")">>
TableHeaders ==
  << <<"#">>, <<"I", "D">>, <<"T", "i", "t", "l", "e">>,
     <<"S", "t", "a", "t", "u", "s">>, <<"C", "r", "e", "a", "t", "e", "d">> >>
ReportTitle == "API Report Summary"

\* -------------------------------------------------------- _normalize ----
\* dict.get(key, default)
Get(item, key, default) == IF key \in DOMAIN item.f THEN item.f[key] ELSE default

\* "id": item.get("id", f"item-{i}")
IdOf(item, i) == Get(item, "id", Text(ItemPrefix \o DecStr(i)))

\* a slip: the fallback given as the default of get(), so it applies only
\* to a missing key
TitleOf_DefaultOnly(item) == Get(item, "title", Text(Untitled))

\* "title": item.get("title") or "(untitled)"
TitleOf(item) ==
  IF Truthy(Get(item, "title", Null)) THEN Get(item, "title", Null) ELSE Text(Untitled)

\* "summary": item.get("body", "")
SummaryOf(item) == Get(item, "body", Text(<<>>))

\* the record appended for the mapping candidate at enumeration position i
Record(item, i) ==
  [index |-> i,
   id |-> IdOf(item, i),
   title |-> TitleOf(item),
   status |-> Text(Published),
   created_at |-> Text(<<>>),
   summary |-> SummaryOf(item)]

\* a slip: an object counts as an item only when it has a known item key
Candidates_KnownKeys(d) ==
  IF IsList(d) THEN d.elems
  ELSE IF IsDict(d) /\ DOMAIN d.f \cap {"id", "name", "title", "status", "created_at"} # {}
  THEN <<d>>
  ELSE <<>>

\* the candidate list chosen by the shape dispatch
Candidates(d) == IF IsList(d) THEN d.elems ELSE IF IsDict(d) THEN <<d>> ELSE <<>>

\* the metadata chosen by the shape dispatch
MetaOf(d) ==
  [source |-> api_url,
   count |-> IF IsList(d) THEN Len(d.elems) ELSE IF IsDict(d) THEN 1 ELSE 0]

RECURSIVE NormalizeLoop_Placeholder(_, _, _)
\* a slip: a non-mapping candidate is turned into a placeholder record
NormalizeLoop_Placeholder(items, i, acc) ==
  IF i > Len(items) THEN acc
  ELSE IF ~IsDict(items[i])
  THEN NormalizeLoop_Placeholder(items, i + 1, Append(acc, Record(EmptyDict, i)))
  ELSE NormalizeLoop_Placeholder(items, i + 1, Append(acc, Record(items[i], i)))

RECURSIVE NormalizeLoop(_, _, _)
\* for i, item in enumerate(items, start=1): skip non-dicts, append records
NormalizeLoop(items, i, acc) ==
  IF i > Len(items) THEN acc
  ELSE IF ~IsDict(items[i]) THEN NormalizeLoop(items, i + 1, acc)
  ELSE NormalizeLoop(items, i + 1, Append(acc, Record(items[i], i)))

_normalize(d) == [meta |-> MetaOf(d), items |-> NormalizeLoop(Candidates(d), 1, <<>>)]

\* ---------------------------------------------------------- fetch_data --
\* What the HTTP client does for one GET; "ok" is a success status with a
\* JSON body, "bad_json" a success status whose body is not JSON.
HttpFailures == {"conn_error", "timeout", "http_error", "bad_json"}
TransportFailures == {"conn_error", "timeout", "http_error"}

NoExc == [type |-> "none", msg |-> "none"]
Exc(t, m) == [type |-> t, msg |-> m]

\* the exception the client library raises inside the try block
LibraryError(outcome) ==
  CASE outcome = "conn_error" -> "ConnectionError"
    [] outcome = "timeout" -> "Timeout"
    [] outcome = "http_error" -> "HTTPError"
    [] outcome = "bad_json" -> "JSONDecodeError"

IsRequestException(cls) == cls \in {"ConnectionError", "Timeout", "HTTPError"}

\* the two except clauses of fetch_data: what the caller sees
FetchError(outcome) ==
  IF LibraryError(outcome) = "JSONDecodeError"
  THEN Exc("RuntimeError", "Invalid JSON from API")
  ELSE IF IsRequestException(LibraryError(outcome))
  THEN Exc("RuntimeError", "API request failed")
  ELSE Exc(LibraryError(outcome), "uncaught")

\* ---------------------------------------------------------- format_doc --
NoInstant == -1      \* last_fetch_at = None

\* strftime("%Y-%m-%d %H:%M:%S UTC"): the instant cut to whole seconds
Strftime(t) == DecStr(t \div TicksPerSec)

Line(label, text) == [label |-> label, text |-> text]

\* the runs of the metadata paragraph
MetaLines(meta, lfa, now) ==
  << Line("Source", meta.source),
     Line("Items", DecStr(meta.count)),
     Line("Generated", Strftime(now)) >>
  \o (IF lfa # NoInstant THEN << Line("Fetched", Strftime(lfa)) >> ELSE <<>>)

\* the five cells of one data row
RowCells(row) ==
  << DecStr(row.index), Str(row.id), Str(row.title), row.status.str, row.created_at.str >>

RECURSIVE TableLoop(_, _, _, _)
\* for row in items: add a table row; assigning a non-string title to a cell
\* text is decided by the document library (strict: it raises TypeError)
TableLoop(items, i, strict, acc) ==
  IF i > Len(items) THEN [exc |-> NoExc, rows |-> acc]
  ELSE IF strict /\ ~IsStr(items[i].title)
  THEN [exc |-> Exc("TypeError", "cell text"), rows |-> acc]
  ELSE TableLoop(items, i + 1, strict, Append(acc, RowCells(items[i])))

\* a slip: the header row is added whether or not there are items
TableOf_Always(items, strict) == TableLoop(items, 1, strict, <<TableHeaders>>)

\* if items: header row, then the data rows
TableOf(items, strict) ==
  IF items # <<>> THEN TableLoop(items, 1, strict, <<TableHeaders>>)
  ELSE [exc |-> NoExc, rows |-> <<>>]

\* body = row.get("summary", "").strip() or "(no summary available)"
BodyOf(row) == IF Strip(row.summary.str) # <<>> THEN Strip(row.summary.str) ELSE NoSummary

\* heading, bold line and body paragraph of one item
SectionOf(row) ==
  [heading |-> [index |-> DecStr(row.index), title |-> Str(row.title)],
   idline |-> [id |-> Str(row.id), status |-> Str(row.status), created |-> Str(row.created_at)],
   body |-> BodyOf(row)]

RECURSIVE SectionLoop(_, _, _)
\* for row in items: a summary that is not a string has no strip()
SectionLoop(items, i, acc) ==
  IF i > Len(items) THEN [exc |-> NoExc, sections |-> acc]
  ELSE IF ~IsStr(items[i].summary)
  THEN [exc |-> Exc("AttributeError", "strip"), sections |-> acc]
  ELSE SectionLoop(items, i + 1, Append(acc, SectionOf(items[i])))

NoDoc == [title |-> "none", meta |-> <<>>, table |-> <<>>, sections |-> <<>>]

\* format_doc(normalized): the document returned, or the exception raised
format_doc(n, lfa, now, strict) ==
  LET t == TableOf(n.items, strict)
      s == SectionLoop(n.items, 1, <<>>)
  IN IF t.exc # NoExc THEN [exc |-> t.exc, doc |-> NoDoc]
     ELSE IF s.exc # NoExc THEN [exc |-> s.exc, doc |-> NoDoc]
     ELSE [exc |-> NoExc,
           doc |-> [title |-> ReportTitle,
                    meta |-> MetaLines(n.meta, lfa, now),
                    table |-> t.rows,
                    sections |-> s.sections]]

\* --------------------------------------------------------- the inputs ---
Keys == {"id", "title", "body"}
Absent == [kind |-> "absent", num |-> 0, str |-> <<>>]

\* the JSON object with the given fields (Absent: the key is missing)
MkDict(i, t, b) ==
  LET v == [k \in Keys |-> IF k = "id" THEN i ELSE IF k = "title" THEN t ELSE b]
  IN Dict([k \in {x \in Keys : v[x] # Absent} |-> v[k]])

Dicts(I, T, B) ==
  {MkDict(i, t, b) : i \in I \cup {Absent}, t \in T \cup {Absent}, b \in B \cup {Absent}}

IdVals == {Null, Num(7), Text(<<"a">>)}
TitleVals == {Null, Num(0), Num(5), Text(<<>>), Text(<<"a">>), EmptyDict}
BodyVals == {Null, Num(5), Text(<<>>), Text(<<" ">>), Text(<<" ", "a", " ">>), EmptyDict}

Scalars == {Null, Num(3), Text(<<"a">>)}
Objects == Dicts(IdVals, TitleVals, BodyVals)
Elements ==
  Dicts({Num(7)}, {Text(<<"a">>), Num(0)}, {Text(<<" ">>), Num(5)}) \cup {Num(5), Null}

SeqsUpTo(S, n) == UNION {[1..k -> S] : k \in 0..n}
Arrays(E) == {List(s) : s \in SeqsUpTo(E, MaxLen)}

\* every decoded payload of the single-run specification
Payloads == Scalars \cup Objects \cup Arrays(Elements)

\* the payloads of the many-run specification
SmallPayloads ==
  {Null,
   MkDict(Num(7), Absent, Absent),
   MkDict(Absent, Absent, Num(5)),
   List(<<>>),
   List(<<Num(5), MkDict(Absent, Text(<<"a">>), Text(<<"a">>))>>)}

\* ------------------------------------------------------------- state ----
VARIABLES
  pc,             \* position in run(): idle, fetched, normalized, rendered
  raw_data,       \* self.raw_data
  last_fetch_at,  \* self.last_fetch_at
  clock,          \* the wall clock read by datetime.now
  data,           \* run(): data
  normalized,     \* run(): normalized
  doc,            \* the document last returned by format_doc
  result,         \* how the last run() ended
  disk,           \* what is stored at output_path
  runs,           \* run() calls started
  calls,          \* direct format_doc calls made
  http,           \* history: HTTP outcome of the current run's fetch
  trace,          \* history: stages executed by the current run
  fetch_at,       \* history: instant read by the current run's fetch
  succeeded,      \* history: successful fetches on this instance
  disk0,          \* history: disk when the current run started
  log             \* history: (HTTP outcome, exception) of failed fetches

vars ==
  <<pc, raw_data, last_fetch_at, clock, data, normalized, doc, result, disk,
    runs, calls, http, trace, fetch_at, succeeded, disk0, log>>

NoResult == [kind |-> "none", path |-> <<>>, exc |-> NoExc]
Returned(p) == [kind |-> "returned", path |-> p, exc |-> NoExc]
Raised(e) == [kind |-> "raised", path |-> <<>>, exc |-> e]
NoReport == [meta |-> [source |-> <<>>, count |-> 0], items |-> <<>>]

Init ==
  /\ pc = "idle"
  /\ raw_data = Null
  /\ last_fetch_at = NoInstant
  /\ clock = 0
  /\ data = Null
  /\ normalized = NoReport
  /\ doc = NoDoc
  /\ result = NoResult
  /\ disk = "absent"
  /\ runs = 0
  /\ calls = 0
  /\ http = "none"
  /\ trace = <<>>
  /\ fetch_at = NoInstant
  /\ succeeded = 0
  /\ disk0 = "absent"
  /\ log = {}

\* run() is entered: its locals are fresh
Enter ==
  /\ runs' = runs + 1
  /\ disk0' = disk
  /\ normalized' = NoReport
  /\ doc' = NoDoc

\* fetch_data returns: status ok and the body decodes to payload
FetchOk(P, maxRuns) ==
  /\ pc = "idle"
  /\ runs < maxRuns
  /\ \E payload \in P, d \in 1..MaxStep :
       /\ raw_data' = payload
       /\ last_fetch_at' = clock + d
       /\ clock' = clock + d
       /\ fetch_at' = clock + d
       /\ data' = payload
  /\ Enter
  /\ pc' = "fetched"
  /\ http' = "ok"
  /\ trace' = <<"fetch">>
  /\ succeeded' = succeeded + 1
  /\ result' = NoResult
  /\ UNCHANGED <<disk, calls, log>>

\* a slip: the failure is swallowed and run() goes on with no data
FetchFail_Swallowed(maxRuns) ==
  /\ pc = "idle"
  /\ runs < maxRuns
  /\ \E outcome \in HttpFailures :
       /\ http' = outcome
       /\ log' = log \cup {[cause |-> outcome, exc |-> FetchError(outcome)]}
  /\ Enter
  /\ pc' = "fetched"
  /\ result' = NoResult
  /\ trace' = <<"fetch">>
  /\ data' = Null
  /\ fetch_at' = NoInstant
  /\ UNCHANGED <<raw_data, last_fetch_at, clock, disk, calls, succeeded>>

\* a slip: a failed fetch forgets the previous payload and instant
FetchFail_Clears(maxRuns) ==
  /\ pc = "idle"
  /\ runs < maxRuns
  /\ \E outcome \in HttpFailures :
       /\ http' = outcome
       /\ result' = Raised(FetchError(outcome))
       /\ log' = log \cup {[cause |-> outcome, exc |-> FetchError(outcome)]}
  /\ Enter
  /\ pc' = "idle"
  /\ trace' = <<"fetch">>
  /\ data' = Null
  /\ fetch_at' = NoInstant
  /\ raw_data' = Null
  /\ last_fetch_at' = NoInstant
  /\ UNCHANGED <<clock, disk, calls, succeeded>>

\* fetch_data raises: run() ends with that exception
FetchFail(maxRuns) ==
  /\ pc = "idle"
  /\ runs < maxRuns
  /\ \E outcome \in HttpFailures :
       /\ http' = outcome
       /\ result' = Raised(FetchError(outcome))
       /\ log' = log \cup {[cause |-> outcome, exc |-> FetchError(outcome)]}
  /\ Enter
  /\ pc' = "idle"
  /\ trace' = <<"fetch">>
  /\ data' = Null
  /\ fetch_at' = NoInstant
  /\ UNCHANGED <<raw_data, last_fetch_at, clock, disk, calls, succeeded>>

\* normalized = self._normalize(data)
Normalize ==
  /\ pc = "fetched"
  /\ normalized' = _normalize(data)
  /\ pc' = "normalized"
  /\ trace' = Append(trace, "normalize")
  /\ UNCHANGED <<raw_data, last_fetch_at, clock, data, doc, result, disk, runs,
                 calls, http, fetch_at, succeeded, disk0, log>>

\* doc = self.format_doc(normalized); an exception ends run()
Render ==
  /\ pc = "normalized"
  /\ \E d \in 0..MaxStep, strict \in BOOLEAN :
       LET r == format_doc(normalized, last_fetch_at, clock + d, strict)
       IN /\ clock' = clock + d
          /\ doc' = r.doc
          /\ IF r.exc = NoExc
             THEN pc' = "rendered" /\ result' = result
             ELSE pc' = "idle" /\ result' = Raised(r.exc)
  /\ trace' = Append(trace, "render")
  /\ UNCHANGED <<raw_data, last_fetch_at, data, normalized, disk, runs, calls,
                 http, fetch_at, succeeded, disk0, log>>

\* return self.save(doc): the document is written and the path returned
SaveOk ==
  /\ pc = "rendered"
  /\ disk' = "document"
  /\ result' = Returned(output_path)
  /\ pc' = "idle"
  /\ trace' = Append(trace, "save")
  /\ UNCHANGED <<raw_data, last_fetch_at, clock, data, normalized, doc, runs,
                 calls, http, fetch_at, succeeded, disk0, log>>

\* doc.save raises: whatever was at the path stays or is left half written
SaveFail ==
  /\ pc = "rendered"
  /\ disk' \in {disk, "partial"}
  /\ result' = Raised(Exc("RuntimeError", "Failed to save DOCX"))
  /\ pc' = "idle"
  /\ trace' = Append(trace, "save")
  /\ UNCHANGED <<raw_data, last_fetch_at, clock, data, normalized, doc, runs,
                 calls, http, fetch_at, succeeded, disk0, log>>

\* a caller outside run() renders a report on the instance
CallFormatDoc ==
  /\ pc = "idle"
  /\ calls < MaxCalls
  /\ \E payload \in SmallPayloads, d \in 0..MaxStep, strict \in BOOLEAN :
       /\ clock' = clock + d
       /\ doc' = format_doc(_normalize(payload), last_fetch_at, clock + d, strict).doc
  /\ calls' = calls + 1
  /\ UNCHANGED <<pc, raw_data, last_fetch_at, data, normalized, result, disk, runs,
                 http, trace, fetch_at, succeeded, disk0, log>>

\* one run() on every payload shape
RunFetchOk == FetchOk(Payloads, 1)
RunFetchFail == FetchFail(1)
Next == RunFetchOk \/ RunFetchFail \/ Normalize \/ Render \/ SaveOk \/ SaveFail
Spec == Init /\ [][Next]_vars

\* several run() and format_doc calls on one instance
AnyFetchOk == FetchOk(SmallPayloads, MaxRuns)
AnyFetchFail == FetchFail(MaxRuns)
NextRuns ==
  AnyFetchOk \/ AnyFetchFail \/ Normalize \/ Render \/ SaveOk \/ SaveFail \/ CallFormatDoc
SpecRuns == Init /\ [][NextRuns]_vars

\* ------------------------------------------------------- the claims -----
Stages == <<"fetch", "normalize", "render", "save">>
IsPrefix(s, t) == Len(s) <= Len(t) /\ s = SubSeq(t, 1, Len(s))

\* the current run has executed _normalize
HasNormalized == Len(trace) >= 2 /\ trace[2] = "normalize"
Items == normalized.items
Meta == normalized.meta

\* C1: for every decoded payload, meta.count equals the length of the
\* returned items sequence.
C1_CountIsLength == HasNormalized => Meta.count = Len(Items)

\* C2: the index values of the returned records are exactly 1, 2, ...,
\* len(items), in order, whatever was skipped.
C2_IndexContiguous == HasNormalized => \A k \in 1..Len(Items) : Items[k].index = k

\* positions of the array that hold a mapping
DictPositions(elems) == {p \in 1..Len(elems) : IsDict(elems[p])}

\* C3: for an array payload, a non-mapping element yields no record, the
\* records are one-to-one and in input order with the mapping elements, and
\* meta.count is the length of the original array.
C3_SkipKeepsCount ==
  (HasNormalized /\ IsList(data)) =>
    /\ Meta.count = Len(data.elems)
    /\ Len(Items) = Cardinality(DictPositions(data.elems))
    /\ \A k \in 1..Len(Items) : Items[k].index \in DictPositions(data.elems)
    /\ \A k \in 1..Len(Items) : \A l \in 1..Len(Items) :
         k < l => Items[k].index < Items[l].index

C3_Witness ==
  /\ HasNormalized
  /\ IsList(data)
  /\ \E p \in 1..Len(data.elems) : \E q \in 1..Len(data.elems) :
       p < q /\ ~IsDict(data.elems[p]) /\ IsDict(data.elems[q])
  /\ Len(Items) < Meta.count

\* C4: a single object gives count 1 and one record with index 1; a scalar
\* or null gives count 0 and no record; meta.source is always the endpoint.
C4_ShapeDispatch ==
  HasNormalized =>
    /\ Meta.source = <<"h", "t", "t", "p", ":", "/", "/", "a", "p", "i">>
    /\ IsDict(data) => (Meta.count = 1 /\ Len(Items) = 1 /\ Items[1].index = 1)
    /\ (~IsDict(data) /\ ~IsList(data)) => (Meta.count = 0 /\ Items = <<>>)

C4_Witness == HasNormalized /\ data = EmptyDict /\ Len(Items) = 1

\* the raw candidate a record was built from
SourceOf(r) == IF IsList(data) THEN data.elems[r.index] ELSE data
Has(item, key) == key \in DOMAIN item.f

\* the parts of C5 that do not concern the title
C5_OtherFields(r) ==
  /\ Has(SourceOf(r), "id") => r.id = SourceOf(r).f["id"]
  /\ ~Has(SourceOf(r), "id") => r.id = Text(<<"i", "t", "e", "m", "-">> \o DecStr(r.index))
  /\ Has(SourceOf(r), "body") => r.summary = SourceOf(r).f["body"]
  /\ ~Has(SourceOf(r), "body") => r.summary = Text(<<>>)
  /\ r.status = Text(<<"p", "u", "b", "l", "i", "s", "h", "e", "d">>)
  /\ r.created_at = Text(<<>>)

\* a rendered summary that is empty after trimming shows the fallback text
C5_Rendered ==
  pc = "rendered" =>
    \A k \in 1..Len(Items) :
      (IsStr(Items[k].summary) /\ Strip(Items[k].summary.str) = <<>>) =>
        doc.sections[k].body =
          <<"(", "n", "o", " ", "s", "u", "m", "m", "a", "r", "y", " ",
            "a", "v", "a", "i", "l", "a", "b", "l", "e", ")">>

UntitledText == Text(<<"(", "u", "n", "t", "i", "t", "l", "e", "d", ")">>)

C6_StageOrder ==
  /\ IsPrefix(trace, Stages)
  /\ http \in HttpFailures =>
       /\ trace = <<"fetch">>
       /\ pc = "idle"
       /\ result.kind = "raised"
       /\ normalized = NoReport
       /\ disk = disk0

C6_Witness == http = "http_error" /\ runs = 2 /\ disk = "document" /\ result.kind = "raised"

\* C7: a decode failure and a transport failure are surfaced as errors of
\* different kinds (exception types), so the caller need not read the text.
C7_DistinctKinds ==
  \A e1 \in log : \A e2 \in log :
    (e1.cause = "bad_json" /\ e2.cause \in TransportFailures) => e1.exc.type # e2.exc.type

\* C8: the table is rendered iff there are items, with the header row and
\* one data row per item in order; one detail section per item in order;
\* with no items the title and the Items line of meta.count are still there.
C8_Rendering ==
  pc = "rendered" =>
    /\ (doc.table # <<>>) <=> (Items # <<>>)
    /\ Items # <<>> =>
         /\ Len(doc.table) = Len(Items) + 1
         /\ doc.table[1] =
              << <<"#">>, <<"I", "D">>, <<"T", "i", "t", "l", "e">>,
                 <<"S", "t", "a", "t", "u", "s">>, <<"C", "r", "e", "a", "t", "e", "d">> >>
         /\ \A k \in 1..Len(Items) :
              /\ doc.table[k + 1][1] = DecStr(Items[k].index)
              /\ doc.table[k + 1][2] = Str(Items[k].id)
              /\ doc.table[k + 1][3] = Str(Items[k].title)
    /\ Len(doc.sections) = Len(Items)
    /\ \A k \in 1..Len(Items) :
         doc.sections[k].heading =
           [index |-> DecStr(Items[k].index), title |-> Str(Items[k].title)]
    /\ doc.title = "API Report Summary"
    /\ doc.meta[1] = Line("Source", Meta.source)
    /\ doc.meta[2] = Line("Items", DecStr(Meta.count))

C8_Witness ==
  /\ pc = "rendered"
  /\ Len(Items) = 2
  /\ Len(doc.table) = 3
  /\ Items[1].title # Items[2].title

\* C9: a run ends by returning the output path or with a transport, decode
\* or persistence error; nothing else is raised by normalize or render.
C9_FourOutcomes ==
  (pc = "idle" /\ runs > 0) =>
    \/ result = Returned(output_path)
    \/ result = Raised(Exc("RuntimeError", "API request failed"))
    \/ result = Raised(Exc("RuntimeError", "Invalid JSON from API"))
    \/ result = Raised(Exc("RuntimeError", "Failed to save DOCX"))

HasFetchedLine(d) == \E k \in 1..Len(d.meta) : d.meta[k].label = "Fetched"

\* C10: a successful fetch stores its own payload and instant, a failed
\* fetch leaves both as they were (unset before any success); a rendered
\* document has a Fetched line exactly when a fetch on the instance has
\* succeeded, and in a run it shows that run's fetch instant.
C10_FetchFrame ==
  /\ [][ /\ (runs' = runs + 1 /\ pc' = "fetched") =>
              (raw_data' = data' /\ last_fetch_at' = clock' /\ clock' > clock)
         /\ (runs' = runs + 1 /\ pc' = "idle") =>
              (raw_data' = raw_data /\ last_fetch_at' = last_fetch_at) ]_vars
  /\ [](succeeded = 0 => (raw_data = Null /\ last_fetch_at = NoInstant))
  /\ [](doc # NoDoc => (HasFetchedLine(doc) <=> succeeded > 0))
  /\ [](pc = "rendered" =>
          (Len(doc.meta) = 4 /\ doc.meta[4] = Line("Fetched", Strftime(fetch_at))))

C10_Witness ==
  /\ runs = 2
  /\ succeeded = 1
  /\ http \in HttpFailures
  /\ raw_data # Null
  /\ HasFetchedLine(doc)

====
